---- MODULE Spec2Model ----
(***************************************************************************)
(* Model of check_proxies.py: the proxy prober (measure_proxy_connection), *)
(* the three handshake functions, the geo resolver (get_country) with its  *)
(* cache, and the batch runner (process_file) driven three times by the    *)
(* entry point.                                                            *)
(*                                                                         *)
(* Text is modelled at token level: a string is a sequence of tokens, each *)
(* a run of digits (with its value), a run of letters, a dot or a colon.   *)
(* Bytes are numbers 0..255.  Latencies are whole milliseconds.            *)
(***************************************************************************)
EXTENDS Integers, Sequences, FiniteSets, TLC

VARIABLES
    WORKERS,     \* module global WORKERS after get_user_config
    batch,       \* which process_file call of the entry point is current (1..3)
    pc,          \* position of the main thread
    lines,       \* process_file: the lines of the input file it read
    proxies,     \* process_file: the list proxies
    tasks,       \* process_file: the futures submitted to the executor
    results,     \* process_file: the list results
    progress,    \* process_file: the last i written to the progress line
    GEO_CACHE,   \* module global GEO_CACHE
    queries,     \* requests.get calls issued, per host: 0, 1, or 2 for more
    out,         \* process_file: its output file: absent, stale or written
    written,     \* process_file: the lines it wrote to its output file
    report,      \* process_file: its final message: a skip or the summary
    summary,     \* process_file: the two numbers of its summary line
    unit         \* a single call of one function on inputs of its own

vars == <<WORKERS, batch, pc, lines, proxies, tasks, results, progress, GEO_CACHE,
          queries, out, written, report, summary, unit>>

batchVars == <<WORKERS, batch, pc, lines, proxies, tasks, results, progress,
               GEO_CACHE, queries, out, written, report, summary>>

(***************************************************************************)
(* Bounds of the model.                                                    *)
(***************************************************************************)
MaxLines == 2
MaxWorkers == 2
MaxReply == 9

(***************************************************************************)
(* Text.                                                                   *)
(***************************************************************************)
Num(n) == [k |-> "num", v |-> n]
Alpha(n) == [k |-> "alpha", v |-> n]
Dot == [k |-> "dot", v |-> 0]
Colon == [k |-> "colon", v |-> 0]

Min(a, b) == IF a <= b THEN a ELSE b

Take(s, n) == SubSeq(s, 1, Min(n, Len(s)))

\* str.split(sep): the fields between the separators, one more than separators
RECURSIVE Split(_, _)
Split(s, sep) ==
    IF \A i \in 1..Len(s) : s[i] # sep THEN <<s>>
    ELSE LET i == CHOOSE j \in 1..Len(s) :
                      s[j] = sep /\ \A m \in 1..(j - 1) : s[m] # sep
         IN  <<SubSeq(s, 1, i - 1)>> \o Split(SubSeq(s, i + 1, Len(s)), sep)

\* int(port_str) succeeds on a single run of digits
IsInt(s) == Len(s) = 1 /\ s[1].k = "num"

IntOf(s) == s[1].v

Pow256(n) == IF n = 1 THEN 256 ELSE IF n = 2 THEN 65536 ELSE 16777216

\* socket.inet_aton(host): one to four numeric parts; every part but the last
\* is one byte, the last part fills the bytes that remain (a single part fills
\* all four: every number of the model, being below 2^31, fits)
inet_aton_ok(host) ==
    LET parts == Split(host, Dot)
        n == Len(parts)
    IN  /\ n \in 1..4
        /\ \A i \in 1..n : IsInt(parts[i])
        /\ \A i \in 1..(n - 1) : IntOf(parts[i]) <= 255
        /\ (n = 1 \/ IntOf(parts[n]) < Pow256(5 - n))

RECURSIVE to_bytes(_, _)
\* int.to_bytes(length, 'big')
to_bytes(x, length) ==
    IF length = 0 THEN <<>>
    ELSE to_bytes(x \div 256, length - 1) \o <<x % 256>>

inet_aton(host) ==
    LET parts == Split(host, Dot)
        n == Len(parts)
    IN  [i \in 1..(n - 1) |-> IntOf(parts[i])]
            \o to_bytes(IntOf(parts[n]), 5 - n)

(***************************************************************************)
(* A connected socket as a handshake sees it: whether sendall succeeds,    *)
(* whether the read times out, and the bytes the peer has sent.            *)
(***************************************************************************)
Sock(sendok, timeout, data) ==
    [sendok |-> sendok, timeout |-> timeout, data |-> data]

\* s.recv(n): at most n of the bytes available
recv(s, n) == Take(s.data, n)

Returned(b, sent) == [raised |-> FALSE, ret |-> b, sent |-> sent]
Raised(sent) == [raised |-> TRUE, ret |-> FALSE, sent |-> sent]

Greeting5 == <<5, 1, 0>>

Accept5 == <<5, 0>>

handshake_socks5_norecvcheck(s, host, port) ==
    IF ~s.sendok THEN Raised(<<>>)
    ELSE IF s.timeout THEN Raised(Greeting5)
    ELSE Returned(Len(recv(s, 2)) = 2, Greeting5)

handshake_socks5(s, host, port) ==
    IF ~s.sendok THEN Raised(<<>>)
    ELSE IF s.timeout THEN Raised(Greeting5)
    ELSE Returned(recv(s, 2) = Accept5, Greeting5)

Request4(host, port) == <<4, 1>> \o to_bytes(port, 2) \o inet_aton(host) \o <<0>>

handshake_socks4_nolen(s, host, port) ==
    IF ~inet_aton_ok(host) THEN Returned(FALSE, <<>>)
    ELSE IF port > 65535 THEN Raised(<<>>)
    ELSE IF ~s.sendok THEN Raised(<<>>)
    ELSE IF s.timeout THEN Raised(Request4(host, port))
    ELSE LET resp == recv(s, 8)
         IN  Returned(Len(resp) >= 2 /\ resp[2] = 90, Request4(host, port))

handshake_socks4_sendfirst(s, host, port) ==
    IF ~s.sendok THEN Raised(<<>>)
    ELSE IF ~inet_aton_ok(host) THEN Returned(FALSE, <<4, 1>>)
    ELSE IF port > 65535 THEN Raised(<<>>)
    ELSE IF s.timeout THEN Raised(Request4(host, port))
    ELSE LET resp == recv(s, 8)
         IN  Returned(Len(resp) = 8 /\ resp[2] = 90, Request4(host, port))

handshake_socks4(s, host, port) ==
    IF ~inet_aton_ok(host) THEN Returned(FALSE, <<>>)
    ELSE IF port > 65535 THEN Raised(<<>>)
    ELSE IF ~s.sendok THEN Raised(<<>>)
    ELSE IF s.timeout THEN Raised(Request4(host, port))
    ELSE LET resp == recv(s, 8)
         IN  Returned(Len(resp) = 8 /\ resp[2] = 90, Request4(host, port))

\* b"GET http://example.com/ HTTP/1.0\r\nHost: example.com\r\n\r\n"
HttpRequest ==
    <<71, 69, 84, 32, 104, 116, 116, 112, 58, 47, 47, 101, 120, 97, 109, 112,
      108, 101, 46, 99, 111, 109, 47, 32, 72, 84, 84, 80, 47, 49, 46, 48, 13,
      10, 72, 111, 115, 116, 58, 32, 101, 120, 97, 109, 112, 108, 101, 46, 99,
      111, 109, 13, 10, 13, 10>>

\* b"HTTP/"
HttpPrefix == <<72, 84, 84, 80, 47>>

startswith(b, prefix) == Len(b) >= Len(prefix) /\ Take(b, Len(prefix)) = prefix

handshake_http_fourbytes(s, host, port) ==
    IF ~s.sendok THEN Raised(<<>>)
    ELSE IF s.timeout THEN Raised(HttpRequest)
    ELSE Returned(startswith(recv(s, 7), Take(HttpPrefix, 4)), HttpRequest)

handshake_http(s, host, port) ==
    IF ~s.sendok THEN Raised(<<>>)
    ELSE IF s.timeout THEN Raised(HttpRequest)
    ELSE Returned(startswith(recv(s, 7), HttpPrefix), HttpRequest)

\* the handshake_fn argument, by the label of its batch
Fns == <<"SOCKS5", "SOCKS4", "HTTP">>

handshake_fn(fn, s, host, port) ==
    IF fn = "SOCKS5" THEN handshake_socks5(s, host, port)
    ELSE IF fn = "SOCKS4" THEN handshake_socks4(s, host, port)
    ELSE handshake_http(s, host, port)

(***************************************************************************)
(* Inputs of the single-call specification.                                *)
(***************************************************************************)
\* 1.2.3.4
HostQuad == <<Num(1), Dot, Num(2), Dot, Num(3), Dot, Num(4)>>
\* example.com
HostName == <<Alpha(1), Dot, Alpha(2)>>
\* 127.1
HostShort == <<Num(127), Dot, Num(1)>>
\* 1.2.3.256
HostBig == <<Num(1), Dot, Num(2), Dot, Num(3), Dot, Num(256)>>
\* 1.2.3.4.5
HostFive == <<Num(1), Dot, Num(2), Dot, Num(3), Dot, Num(4), Dot, Num(5)>>
\* 2130706433
HostOne == <<Num(2130706433)>>

UnitHosts == {HostQuad, HostName, HostShort, HostBig, HostFive, HostOne, <<>>}

UnitPorts == {1, 80, 1080, 65535}

\* replies a conforming peer of each protocol sends; the HTTP one is
\* b"HTTP/1.1 20"
Grant4 == <<0, 90, 0, 0, 0, 0, 0, 0, 0, 0>>
Status200 == <<72, 84, 84, 80, 47, 49, 46, 49, 32, 50>>
Bases == {Accept5 \o <<0, 0>>, Grant4, Status200}

AltBytes == {0, 90}

\* every base reply, with at most one byte replaced, cut to every length
Streams ==
    UNION {{Take([b EXCEPT ![k] = a], n) :
               k \in 1..Len(b), a \in AltBytes, n \in 0..MaxReply} :
           b \in Bases}

\* the peer's bytes arrive, or the read times out, or sendall fails
Sockets ==
    {Sock(TRUE, FALSE, d) : d \in Streams}
        \cup {Sock(TRUE, TRUE, <<>>), Sock(FALSE, FALSE, <<>>)}

NoCall == [pc |-> "off"]

UnitInit ==
    /\ unit \in [pc : {"call"}, fn : {Fns[i] : i \in 1..3},
                 host : UnitHosts, port : UnitPorts]

Call(fn, s) ==
    /\ pc = "unit"
    /\ unit.pc = "call"
    /\ unit.fn = fn
    /\ unit' = [pc |-> "ret", fn |-> fn, host |-> unit.host,
                port |-> unit.port, s |-> s,
                r |-> handshake_fn(fn, s, unit.host, unit.port)]
    /\ UNCHANGED batchVars

CallSocks5 == \E s \in Sockets : Call("SOCKS5", s)
CallSocks4 == \E s \in Sockets : Call("SOCKS4", s)
CallHttp == \E s \in Sockets : Call("HTTP", s)

(***************************************************************************)
(* Inputs of the run.                                                      *)
(***************************************************************************)
\* "1.2.3.4:1080"
LitQuad == HostQuad \o <<Colon, Num(1080)>>
\* "1.2.3.4:80"
LitQuad80 == HostQuad \o <<Colon, Num(80)>>
\* "1.2.3.4:70000", a port no connection can be made to
LitBigPort == HostQuad \o <<Colon, Num(70000)>>
\* "1.2.3.4", no colon
LitNoColon == HostQuad
\* "1.2.3.4:socks", no number after the colon
LitBadPort == HostQuad \o <<Colon, Alpha(3)>>
\* "1.2.3.4:1080:5", two colons
LitTwoColons == HostQuad \o <<Colon, Num(1080), Colon, Num(5)>>

\* the lines of the run: an endpoint and a literal without a colon, which may
\* come anywhere on a list and more than once
Literals == {LitQuad, LitNoColon}

\* a second endpoint of the host, a port out of range and the other malformed
\* literals, which come first on a list
RareLiterals == {LitQuad80, LitBigPort, LitBadPort, LitTwoColons}

\* a blank line: nothing is left of it after strip()
Blank == <<>>

SeqsUpTo(S, n) == UNION {[1..k -> S] : k \in 0..n}

\* the lists of lines that are read
FileLines ==
    SeqsUpTo(Literals \cup {Blank}, MaxLines)
        \cup {<<l>> \o s : l \in RareLiterals,
                            s \in SeqsUpTo({LitQuad}, MaxLines - 1)}

\* an input file: missing, or its lines
InputFiles ==
    {[exists |-> FALSE, lines |-> <<>>]}
        \cup {[exists |-> TRUE, lines |-> l] : l \in FileLines}

\* measured latencies, in milliseconds
Pings == {54, 120}

\* what the geolocation query yields: a country code, or "??" on failure
QueryResults == {"US", "??"}

\* the peers a probe of the run meets
RunSockets ==
    {Sock(TRUE, FALSE, d) : d \in {Accept5, Take(Grant4, 8), Status200}}
        \cup {Sock(TRUE, TRUE, <<>>)}

(***************************************************************************)
(* measure_proxy_connection and get_country.                               *)
(***************************************************************************)
None == <<>>
Some(x) == <<x>>

ParseOk_lenient(proxy) ==
    LET f == Split(proxy, Colon) IN Len(f) >= 2 /\ IsInt(f[2])

\* host, port_str = proxy.split(':') ; port = int(port_str)
ParseOk(proxy) ==
    LET f == Split(proxy, Colon) IN Len(f) = 2 /\ IsInt(f[2])

HostOf(proxy) == Split(proxy, Colon)[1]

PortOf(proxy) == IntOf(Split(proxy, Colon)[2])

\* socket.create_connection can succeed only on a port the stack accepts
PortConnectable(port) == port \in 1..65535

Outcome(proxy, ping, country) ==
    [proxy |-> proxy, ping |-> ping, country |-> country]

CacheHit(cache, ip) == ip \in DOMAIN cache

CachePut(cache, ip, country) ==
    [h \in DOMAIN cache \cup {ip} |-> IF h = ip THEN country ELSE cache[h]]

NewTask(proxy, fn) ==
    [proxy |-> proxy, fn |-> fn, pc |-> "queued", sock |-> "none",
     hs |-> "none", ping |-> 0, res |-> None, exc |-> FALSE,
     collected |-> FALSE, runs |-> 0]

Running(t) == t.pc \in {"connect", "hs", "geo", "query"}

InFlight == {i \in 1..Len(tasks) : Running(tasks[i])}

WorkerFree_always == TRUE

\* the executor hands a queued call to a thread while fewer than max_workers
\* calls are running
WorkerFree == Cardinality(InFlight) < WORKERS

Close_leak(sock) == sock

\* the with-block of the probe closes the socket it opened
Close(sock) == IF sock = "open" THEN "closed" ELSE sock

\* the call returns.  A call that returns None leaves nothing behind; beside
\* an outcome the record of its connection and handshake is kept
Return(t, res) ==
    IF res = None
    THEN [NewTask(t.proxy, t.fn) EXCEPT
              !.pc = "done", !.runs = t.runs, !.sock = Close(t.sock)]
    ELSE [t EXCEPT !.pc = "done", !.res = res, !.ping = 0,
                   !.sock = Close(t.sock)]

Caught_reraise(t) == [Return(t, None) EXCEPT !.exc = TRUE]

\* except Exception: return None
Caught(t) == Return(t, None)

AfterHandshake_lenient(t, r, ping) ==
    IF r.raised THEN Caught([t EXCEPT !.hs = "raise"])
    ELSE [t EXCEPT !.hs = IF r.ret THEN "true" ELSE "false",
                   !.ping = ping, !.pc = "geo"]

\* what the probe does with the value its handshake produced
AfterHandshake(t, r, ping) ==
    IF r.raised THEN Caught([t EXCEPT !.hs = "raise"])
    ELSE IF ~r.ret THEN Return([t EXCEPT !.hs = "false"], None)
    ELSE [t EXCEPT !.hs = "true", !.ping = ping, !.pc = "geo"]

pool == /\ pc = "pool"
        /\ UNCHANGED <<WORKERS, batch, pc, lines, proxies, results, progress,
                       out, written, report, summary, unit>>

\* a worker thread takes the call and parses the literal
Start(i) ==
    /\ pool
    /\ tasks[i].pc = "queued"
    /\ WorkerFree
    /\ LET t == [tasks[i] EXCEPT !.runs = @ + 1]
       IN  tasks' = [tasks EXCEPT ![i] =
                        IF ParseOk(t.proxy) THEN [t EXCEPT !.pc = "connect"]
                        ELSE Caught(t)]
    /\ UNCHANGED <<GEO_CACHE, queries>>

\* socket.create_connection((host, port), timeout=TIMEOUT)
Connect(i) ==
    /\ pool
    /\ tasks[i].pc = "connect"
    /\ \E ok \in BOOLEAN :
          tasks' = [tasks EXCEPT ![i] =
                       IF ok /\ PortConnectable(PortOf(@.proxy))
                       THEN [@ EXCEPT !.pc = "hs", !.sock = "open"]
                       ELSE Caught(@)]
    /\ UNCHANGED <<GEO_CACHE, queries>>

\* handshake_fn(s, host, port), and the timer stopped on success
Handshake(i) ==
    /\ pool
    /\ tasks[i].pc = "hs"
    /\ \E s \in RunSockets, ping \in Pings :
          LET t == tasks[i]
              r == handshake_fn(t.fn, s, HostOf(t.proxy), PortOf(t.proxy))
          IN  tasks' = [tasks EXCEPT ![i] = AfterHandshake(t, r, ping)]
    /\ UNCHANGED <<GEO_CACHE, queries>>

\* get_country: the cache lookup
GeoLookup(i) ==
    /\ pool
    /\ tasks[i].pc = "geo"
    /\ LET t == tasks[i]
           ip == HostOf(t.proxy)
       IN  tasks' = [tasks EXCEPT ![i] =
                        IF CacheHit(GEO_CACHE, ip)
                        THEN Return(t, Some(Outcome(t.proxy, t.ping,
                                                    GEO_CACHE[ip])))
                        ELSE [t EXCEPT !.pc = "query"]]
    /\ UNCHANGED <<GEO_CACHE, queries>>

\* get_country: the external query and the store of its result
GeoQuery(i) ==
    /\ pool
    /\ tasks[i].pc = "query"
    /\ \E country \in QueryResults :
          LET t == tasks[i]
              ip == HostOf(t.proxy)
          IN  /\ queries' = [queries EXCEPT ![ip] = Min(@ + 1, 2)]
              /\ GEO_CACHE' = CachePut(GEO_CACHE, ip, country)
              /\ tasks' = [tasks EXCEPT ![i] =
                              Return(t, Some(Outcome(t.proxy, t.ping, country)))]

(***************************************************************************)
(* process_file and the entry point.                                       *)
(***************************************************************************)
\* [line.strip() for line in f if line.strip()]
NonBlank(ls) == SelectSeq(ls, LAMBDA l : l # Blank)

Collected_first(rs, res) ==
    IF res # None /\ rs = <<>> THEN Append(rs, res[1]) ELSE rs

\* if res: results.append(res)
Collected(rs, res) == IF res # None THEN Append(rs, res[1]) ELSE rs

SortByPing_none(rs) == rs

RECURSIVE SortByPing_unstable(_)
SortByPing_unstable(rs) ==
    IF Len(rs) <= 1 THEN rs
    ELSE LET last == rs[Len(rs)]
             head == SortByPing_unstable(SubSeq(rs, 1, Len(rs) - 1))
             k == Cardinality({j \in 1..Len(head) : head[j].ping < last.ping})
         IN  SubSeq(head, 1, k) \o <<last>> \o SubSeq(head, k + 1, Len(head))

\* list.sort(key=lambda x: x[1]): stable, ascending by the ping
RECURSIVE SortByPing(_)
SortByPing(rs) ==
    IF Len(rs) <= 1 THEN rs
    ELSE LET last == rs[Len(rs)]
             head == SortByPing(SubSeq(rs, 1, Len(rs) - 1))
             k == Cardinality({j \in 1..Len(head) : head[j].ping <= last.ping})
         IN  SubSeq(head, 1, k) \o <<last>> \o SubSeq(head, k + 1, Len(head))

\* f"{ping:.2f}": the latency in hundredths of a second, rounded
Format2f(ms) == (ms + 5) \div 10

\* f"{proxy} (ping: {ping:.2f}s, country: {country})\n"
Line(r) == [proxy |-> r.proxy, ping |-> Format2f(r.ping), country |-> r.country]

Lines(rs) == [j \in 1..Len(rs) |-> Line(rs[j])]

AllCollected_first == \E i \in 1..Len(tasks) : tasks[i].collected

\* the for loop over as_completed(futures) has seen every future
AllCollected == \A i \in 1..Len(tasks) : tasks[i].collected

NoSummary == [found |-> 0, total |-> 0]

\* what follows a return of process_file at the entry point
NextCall ==
    /\ batch' = IF batch < 3 THEN batch + 1 ELSE batch
    /\ pc' = IF batch < 3 THEN "open" ELSE "done"

\* process_file up to the submission of the calls.  The input file is read
\* here; the locals and the messages of the call before are gone.  Whether an
\* earlier run left the output file of this call behind matters only when the
\* call does not write it
OpenFile ==
    /\ pc = "open"
    /\ results' = <<>>
    /\ progress' = 0
    /\ written' = <<>>
    /\ summary' = NoSummary
    /\ \E f \in InputFiles :
          /\ lines' = f.lines
          /\ \/ /\ ~f.exists
                /\ out' \in {"absent", "stale"}
                /\ report' = "missing"
                /\ proxies' = <<>>
                /\ tasks' = <<>>
                /\ NextCall
             \/ /\ f.exists
                /\ NonBlank(f.lines) = <<>>
                /\ out' \in {"absent", "stale"}
                /\ report' = "empty"
                /\ proxies' = <<>>
                /\ tasks' = <<>>
                /\ NextCall
             \/ /\ f.exists
                /\ NonBlank(f.lines) # <<>>
                /\ proxies' = NonBlank(f.lines)
                /\ out' = "absent"
                /\ report' = "none"
                /\ UNCHANGED batch
                /\ IF WORKERS = 0
                   THEN /\ pc' = "crashed"
                        /\ tasks' = <<>>
                   ELSE /\ pc' = "pool"
                        /\ tasks' = [i \in 1..Len(proxies') |->
                                        NewTask(proxies'[i], Fns[batch])]
    /\ UNCHANGED <<WORKERS, GEO_CACHE, queries, unit>>

Counter_zero(k) == k

\* enumerate(as_completed(futures), 1): the i of the turn after k turns
Counter(k) == k + 1

\* one turn of the loop over as_completed(futures): the progress line, then
\* future.result(), which raises what the call raised
Collect(i) ==
    /\ pc = "pool"
    /\ tasks[i].pc = "done"
    /\ ~tasks[i].collected
    /\ progress' =
          Counter(Cardinality({j \in 1..Len(tasks) : tasks[j].collected}))
    /\ tasks' = [tasks EXCEPT ![i].collected = TRUE]
    /\ IF tasks[i].exc
       THEN pc' = "crashed" /\ UNCHANGED results
       ELSE UNCHANGED pc /\ results' = Collected(results, tasks[i].res)
    /\ UNCHANGED <<WORKERS, batch, lines, proxies, GEO_CACHE, queries,
                   out, written, report, summary, unit>>

\* process_file after the loop: sort, write the file, print the summary
Finish ==
    /\ pc = "pool"
    /\ AllCollected
    /\ results' = SortByPing(results)
    /\ out' = "written"
    /\ written' = Lines(results')
    /\ report' = "summary"
    /\ summary' = [found |-> Len(results'), total |-> Len(proxies)]
    /\ NextCall
    /\ UNCHANGED <<WORKERS, lines, proxies, tasks, progress, GEO_CACHE,
                   queries, unit>>

Hosts == {HostOf(l) : l \in {m \in Literals \cup RareLiterals : ParseOk(m)}}

Init ==
    /\ WORKERS \in 0..MaxWorkers
    /\ batch = 1
    /\ pc = "open"
    /\ lines = <<>>
    /\ proxies = <<>>
    /\ tasks = <<>>
    /\ results = <<>>
    /\ progress = 0
    /\ GEO_CACHE = <<>>
    /\ queries = [h \in Hosts |-> 0]
    /\ out = "absent"
    /\ written = <<>>
    /\ report = "none"
    /\ summary = NoSummary
    /\ unit = NoCall

Next ==
    \/ OpenFile
    \/ \E i \in 1..Len(tasks) : Start(i)
    \/ \E i \in 1..Len(tasks) : Connect(i)
    \/ \E i \in 1..Len(tasks) : Handshake(i)
    \/ \E i \in 1..Len(tasks) : GeoLookup(i)
    \/ \E i \in 1..Len(tasks) : GeoQuery(i)
    \/ \E i \in 1..Len(tasks) : Collect(i)
    \/ Finish

Spec == Init /\ [][Next]_vars

\* one call of one handshake function
InitCall ==
    /\ UnitInit
    /\ WORKERS = 1
    /\ batch = 1
    /\ pc = "unit"
    /\ lines = <<>>
    /\ proxies = <<>>
    /\ tasks = <<>>
    /\ results = <<>>
    /\ progress = 0
    /\ GEO_CACHE = <<>>
    /\ queries = [h \in Hosts |-> 0]
    /\ out = "absent"
    /\ written = <<>>
    /\ report = "none"
    /\ summary = NoSummary

NextCallStep == CallSocks5 \/ CallSocks4 \/ CallHttp

SpecCall == InitCall /\ [][NextCallStep]_vars

(***************************************************************************)
(* Properties of a batch and of the run.                                   *)
(***************************************************************************)
Absent == {i \in 1..Len(tasks) : tasks[i].pc = "done" /\ tasks[i].res = None}

Present == {i \in 1..Len(tasks) : tasks[i].pc = "done" /\ tasks[i].res # None}

NonBlankCount(ls) == Cardinality({j \in 1..Len(ls) : ls[j] # Blank})

\* C1: when a batch has printed its summary, every non-blank line of its
\* input was submitted as exactly one call, every call ran once and yielded
\* one outcome, and the outcomes collected plus the absent ones number N
Completeness ==
    report = "summary" =>
        /\ summary.total = NonBlankCount(lines)
        /\ summary.total >= 1
        /\ Len(tasks) = summary.total
        /\ proxies = SelectSeq(lines, LAMBDA l : l # Blank)
        /\ \A i \in 1..Len(tasks) :
              /\ tasks[i].proxy = proxies[i]
              /\ tasks[i].runs = 1
              /\ tasks[i].pc = "done"
        /\ summary.found = Len(results)
        /\ Len(results) = Cardinality(Present)
        /\ Len(results) + Cardinality(Absent) = summary.total

CompletenessWitness ==
    /\ report = "summary"
    /\ Len(lines) > summary.total
    /\ Len(results) = 1
    /\ batch = 2

\* C2: every entry of results, and every line written, is the outcome of a
\* collected call that held a connection and whose handshake returned true;
\* a call that failed anywhere contributes nothing
NoPartialCredit ==
    /\ \A i \in 1..Len(tasks) :
          tasks[i].res # None =>
              /\ tasks[i].hs = "true"
              /\ tasks[i].sock = "closed"
              /\ ParseOk(tasks[i].proxy)
              /\ tasks[i].res[1].proxy = tasks[i].proxy
    /\ Len(results) = Cardinality({i \in Present : tasks[i].collected})
    /\ \A k \in 1..Len(results) :
          \E i \in Present : tasks[i].collected /\ tasks[i].res[1] = results[k]
    /\ Len(written) <= Len(results)
    /\ \A k \in 1..Len(written) : written[k] = Line(results[k])
    /\ report = "summary" => Len(written) = Len(results)

NoPartialCreditWitness ==
    /\ report = "summary"
    /\ Len(written) = 1
    /\ Cardinality(Absent) = 1
    /\ ParseOk(tasks[1].proxy)
    /\ tasks[1].res = None

HostsOfResults(h) ==
    {i \in Present : HostOf(tasks[i].proxy) = h}

\* C3: no host is queried more than once in a run, and all outcomes for one
\* host carry the same country code
GeoIdempotent ==
    /\ \A h \in Hosts : queries[h] <= 1
    /\ \A h \in Hosts : \A i, j \in HostsOfResults(h) :
          tasks[i].res[1].country = tasks[j].res[1].country

\* C4: never more calls in flight than WORKERS, however many were submitted,
\* and a batch that ends has run every call it submitted
BoundedParallelism ==
    /\ Cardinality(InFlight) <= WORKERS
    /\ Len(tasks) \in {0, Len(proxies)}
    /\ report = "summary" =>
          /\ Len(tasks) = Len(proxies)
          /\ \A i \in 1..Len(tasks) : tasks[i].runs = 1 /\ tasks[i].pc = "done"

BoundedParallelismWitness ==
    /\ Len(tasks) > WORKERS
    /\ Cardinality(InFlight) = WORKERS
    /\ \E i \in 1..Len(tasks) : tasks[i].pc = "queued"
    /\ \E i \in InFlight : tasks[i].pc = "query"

Reported == report \in {"missing", "empty", "summary"}

\* C5: the calls in flight all belong to the current batch, the batches come
\* in the order SOCKS5, SOCKS4, HTTP, and the entry point moves on only when
\* every call of the batch has returned and the batch has reported (a skip,
\* or its file written and its summary printed)
Sequential ==
    /\ [](\A i \in 1..Len(tasks) :
            Running(tasks[i]) => pc = "pool" /\ tasks[i].fn = Fns[batch])
    /\ [][/\ batch' \in {batch, batch + 1}
          /\ (batch' # batch \/ (pc # "done" /\ pc' = "done")) =>
                /\ InFlight = {}
                /\ \A i \in 1..Len(tasks) : tasks[i].pc = "done"
                /\ Reported'
                /\ report' = "summary" => out' = "written"
          /\ (pc # "pool" /\ pc' = "pool") =>
                \A i \in 1..Len(tasks') :
                    tasks'[i].fn = Fns[batch] /\ tasks'[i].pc = "queued"]_vars

SequentialWitness ==
    /\ batch = 3
    /\ pc = "pool"
    /\ Cardinality(InFlight) = 2
    /\ \A i \in InFlight : tasks[i].fn = "HTTP"

Ordered(ls) == \A j, k \in 1..Len(ls) : j < k => ls[j].ping <= ls[k].ping

\* C6: the lines of the output file are in non-decreasing order of latency,
\* they are the collected outcomes, and latencies 0.30, 0.05, 0.12 come out
\* as 0.05, 0.12, 0.30
Ranking ==
    /\ report = "summary" =>
          /\ Ordered(results)
          /\ Ordered(written)
          /\ written = Lines(results)
          /\ Len(results) = Cardinality(Present)
          /\ \A i \in Present : \E k \in 1..Len(results) :
                results[k] = tasks[i].res[1]
    /\ LET o(ms) == Outcome(LitQuad, ms, "US")
       IN  /\ SortByPing(<<o(300), o(50), o(120)>>) = <<o(50), o(120), o(300)>>
           /\ Lines(<<o(50), o(120), o(300)>>)
                  = <<Line(o(50)), Line(o(120)), Line(o(300))>>
           /\ Line(o(300)).ping = 30 /\ Line(o(50)).ping = 5

RankingWitness ==
    /\ report = "summary"
    /\ Len(written) = 2
    /\ tasks[1].res # None /\ tasks[1].res[1].ping = 120
    /\ tasks[2].res # None /\ tasks[2].res[1].ping = 54
    /\ written[1].ping = 5
    /\ written[2].ping = 12

(***************************************************************************)
(* Properties of one call of a handshake function.                         *)
(***************************************************************************)
Called(fn) == unit.pc = "ret" /\ unit.fn = fn

\* the bytes a read of at most n bytes hands to the handshake
Read(n) == IF Len(unit.s.data) <= n THEN unit.s.data
           ELSE [j \in 1..n |-> unit.s.data[j]]

\* C7 as stated: once the greeting is sent, handshake_socks5 returns true on
\* the reply 05 00 and returns false on every other reply, on a short read
\* and on a read that times out
Socks5AsStated ==
    (Called("SOCKS5") /\ unit.s.sendok) =>
        /\ unit.r.sent = <<5, 1, 0>>
        /\ ~unit.r.raised
        /\ unit.r.ret = (~unit.s.timeout /\ Read(2) = <<5, 0>>)

\* C7, amended: once the greeting is sent, handshake_socks5 returns true on
\* the reply 05 00, returns false on every other reply and on a short read,
\* and on a read that times out it returns nothing: the timeout is raised
Socks5Reply ==
    (Called("SOCKS5") /\ unit.s.sendok) =>
        /\ unit.r.sent = <<5, 1, 0>>
        /\ unit.r.raised = unit.s.timeout
        /\ ~unit.s.timeout => unit.r.ret = (Read(2) = <<5, 0>>)
        /\ unit.s.timeout => ~unit.r.ret

Socks5ReplyWitness ==
    /\ Called("SOCKS5")
    /\ unit.s.sendok
    /\ unit.s.timeout
    /\ unit.r.raised

IsByte(tok) == tok.k = "num" /\ tok.v <= 255

\* four numbers 0..255 with dots between them
DottedQuad(host) ==
    /\ Len(host) = 7
    /\ \A j \in {1, 3, 5, 7} : IsByte(host[j])
    /\ \A j \in {2, 4, 6} : host[j] = Dot

\* C8 as stated: on a host that is no dotted-decimal IPv4 literal
\* handshake_socks4 returns false and writes nothing
Socks4AsStated ==
    (Called("SOCKS4") /\ ~DottedQuad(unit.host)) =>
        ~unit.r.raised /\ ~unit.r.ret /\ unit.r.sent = <<>>

\* one to four numbers with dots between them, every number but the last at
\* most 255 and the last within the bytes left to it
AtonAccepts(host) ==
    /\ Len(host) \in {1, 3, 5, 7}
    /\ \A j \in 1..Len(host) :
          IF j % 2 = 1 THEN host[j].k = "num" ELSE host[j] = Dot
    /\ \A j \in 1..(Len(host) - 1) : j % 2 = 1 => host[j].v <= 255
    /\ Len(host) = 7 => host[7].v <= 255
    /\ Len(host) = 5 => host[5].v <= 65535
    /\ Len(host) = 3 => host[3].v <= 16777215

\* C8, amended: on a host that inet_aton rejects (a name, an empty string,
\* more than four parts, a part out of range) handshake_socks4 returns false
\* and writes nothing; a short numeric form that inet_aton accepts, such as
\* 127.1, is no dotted-decimal literal and yet the request is written
Socks4Rejects ==
    Called("SOCKS4") =>
        /\ ~AtonAccepts(unit.host) =>
              ~unit.r.raised /\ ~unit.r.ret /\ unit.r.sent = <<>>
        /\ (AtonAccepts(unit.host) /\ unit.s.sendok) =>
              Len(unit.r.sent) = 9

Socks4RejectsWitness ==
    /\ Called("SOCKS4")
    /\ unit.host = HostName
    /\ unit.s.sendok
    /\ Len(unit.s.data) = 8
    /\ unit.s.data[2] = 90
    /\ ~unit.r.ret

\* C9: on a dotted-decimal host and a port 1..65535 handshake_socks4 sends
\* 04 01, the port in two bytes big-endian, the four address bytes, 00, and
\* returns true iff the reply read has 8 bytes and its second byte is 0x5A
Socks4Reply ==
    (Called("SOCKS4") /\ DottedQuad(unit.host) /\ unit.port \in 1..65535) =>
        /\ unit.s.sendok =>
              /\ Len(unit.r.sent) = 9
              /\ unit.r.sent =
                    <<4, 1, unit.port \div 256, unit.port % 256,
                      unit.host[1].v, unit.host[3].v, unit.host[5].v,
                      unit.host[7].v, 0>>
        /\ ~unit.s.sendok => unit.r.sent = <<>>
        /\ unit.r.ret =
              (/\ unit.s.sendok
               /\ ~unit.s.timeout
               /\ Len(Read(8)) = 8
               /\ Read(8)[2] = 90)
        /\ unit.r.raised = (~unit.s.sendok \/ unit.s.timeout)

Socks4ReplyWitness ==
    /\ Called("SOCKS4")
    /\ unit.host = HostQuad
    /\ unit.port = 1080
    /\ unit.r.ret
    /\ unit.r.sent = <<4, 1, 4, 56, 1, 2, 3, 4, 0>>

\* C10 as stated: handshake_http returns true iff it read 7 bytes that begin
\* with HTTP/
HttpAsStated ==
    (Called("HTTP") /\ unit.s.sendok /\ ~unit.s.timeout) =>
        unit.r.ret =
            (/\ Len(Read(7)) = 7
             /\ \A j \in 1..5 : Read(7)[j] = HttpPrefix[j])

\* C10, amended: handshake_http reads at most 7 bytes and returns true iff
\* the bytes read begin with HTTP/, so a read of 5 or 6 bytes that are or
\* begin with HTTP/ yields true as well; a response whose first 5 bytes are
\* not HTTP/, or that is shorter than 5 bytes, yields false whatever follows
HttpReply ==
    (Called("HTTP") /\ unit.s.sendok /\ ~unit.s.timeout) =>
        /\ unit.r.sent = HttpRequest
        /\ ~unit.r.raised
        /\ unit.r.ret =
              (/\ Len(unit.s.data) >= 5
               /\ \A j \in 1..5 : unit.s.data[j] = HttpPrefix[j])

HttpReplyWitness ==
    /\ Called("HTTP")
    /\ unit.s.sendok
    /\ Len(unit.s.data) = 6
    /\ unit.r.ret

FullOutcome(i) ==
    /\ Len(tasks[i].res) = 1
    /\ tasks[i].res[1].proxy = tasks[i].proxy
    /\ tasks[i].res[1].ping \in Pings
    /\ tasks[i].res[1].country \in QueryResults

\* C11 as stated: a failure at any stage, the geo query included, makes the
\* probe absent, so no outcome carries the code of a failed query
GeoFailureAbsent ==
    \A i \in 1..Len(tasks) :
        /\ ~tasks[i].exc
        /\ tasks[i].pc = "done" =>
              (tasks[i].res = None
                  \/ (FullOutcome(i) /\ tasks[i].res[1].country # "??"))

\* C11, amended: no call of measure_proxy_connection raises; a call that has
\* returned holds absent or a full outcome; a literal that does not parse or
\* whose port is out of range yields absent, and so does a refused connection
\* or a handshake that raised; a failed geo query does not: it is absorbed
\* as "??" and the probe returns a full outcome.  A probe that fails never
\* stops the batch and changes no other probe's record
NeverRaises ==
    /\ [](/\ \A i \in 1..Len(tasks) :
              /\ ~tasks[i].exc
              /\ tasks[i].pc = "done" =>
                    (tasks[i].res = None \/ FullOutcome(i))
              /\ (tasks[i].pc = "done" /\ tasks[i].res # None) =>
                    (/\ Len(Split(tasks[i].proxy, Colon)) = 2
                     /\ PortOf(tasks[i].proxy) \in 1..65535
                     /\ tasks[i].hs = "true")
          /\ pc = "crashed" => Len(tasks) = 0)
    /\ [][\A i \in 1..Len(tasks) :
             (/\ pc = "pool"
              /\ tasks[i].pc \in {"queued", "connect", "hs"}
              /\ tasks'[i].pc = "done"
              /\ tasks'[i].res = None) =>
                 (/\ pc' = pc
                  /\ results' = results
                  /\ \A j \in 1..Len(tasks) : j # i => tasks'[j] = tasks[j])]_vars

NeverRaisesWitness ==
    /\ pc = "pool"
    /\ Len(tasks) = 2
    /\ tasks[1].proxy = LitBigPort
    /\ tasks[1].pc = "done"
    /\ tasks[1].res = None
    /\ tasks[2].pc = "done"
    /\ tasks[2].res # None
    /\ tasks[2].res[1].country = "??"
    /\ tasks[2].collected

\* C12: once a failed query has stored "??" for a host, the entry stays "??"
\* and the host is not queried again in the run
NegativeCached ==
    [][\A h \in Hosts :
          (CacheHit(GEO_CACHE, h) /\ GEO_CACHE[h] = "??") =>
              /\ CacheHit(GEO_CACHE', h)
              /\ GEO_CACHE'[h] = "??"
              /\ queries'[h] = queries[h]]_vars

\* C13: a batch leaves its output file behind iff its input exists and has a
\* non-blank line; a batch whose input is missing or empty submits no call,
\* reports the skip and leaves no output file, and a batch whose input has a
\* non-blank line ends with its output file written
OutputIffInput ==
    /\ report \in {"missing", "empty"} =>
          /\ NonBlank(lines) = <<>>
          /\ Len(tasks) = 0
          /\ out = "absent"
    /\ report = "summary" =>
          /\ NonBlank(lines) # <<>>
          /\ out = "written"
    /\ (NonBlank(lines) # <<>> /\ pc \notin {"pool"}) => out = "written"

\* C14: for every input and every setting of WORKERS the run is never
\* aborted: each call of process_file ends in a skip report or in the summary
\* found/total, and the run ends after the third call
RunCompletes ==
    /\ pc # "crashed"
    /\ pc = "done" => (batch = 3 /\ Reported)
    /\ report = "summary" =>
          (summary.total = Len(proxies) /\ summary.found <= summary.total)

\* the place of the first line of the input that holds the literal
InputPos(proxy) ==
    CHOOSE i \in 1..Len(proxies) :
        proxies[i] = proxy /\ \A j \in 1..(i - 1) : proxies[j] # proxy

WithPing(rs, ms) == SelectSeq(rs, LAMBDA r : r.ping = ms)

\* C15 as stated: outcomes of equal latency are written in the order their
\* endpoints have in the input, whichever probe completed first
TiesInInputOrder ==
    report = "summary" =>
        \A j, k \in 1..Len(results) :
            (/\ j < k
             /\ results[j].ping = results[k].ping
             /\ results[j].proxy # results[k].proxy) =>
                InputPos(results[j].proxy) < InputPos(results[k].proxy)

\* C15, amended: the sort is stable, so the outcomes of equal latency are
\* written in the order they had in results before the sort, which is the
\* order in which their futures were collected and need not be the order of
\* the input
TiesInCollectionOrder ==
    [][(pc = "pool" /\ report' = "summary") =>
          /\ Ordered(results')
          /\ Len(results') = Len(results)
          /\ \A ms \in Pings : WithPing(results', ms) = WithPing(results, ms)]_vars

TiesInCollectionOrderWitness ==
    /\ report = "summary"
    /\ proxies = <<LitQuad80, LitQuad>>
    /\ Len(written) = 2
    /\ results[1].ping = results[2].ping
    /\ results[1].proxy = LitQuad
    /\ results[2].proxy = LitQuad80

\* C16: the geo cache only grows: a host that has an entry keeps it, with
\* the same code, in every later state of the run
CacheAppendOnly ==
    [][\A h \in DOMAIN GEO_CACHE :
          h \in DOMAIN GEO_CACHE' /\ GEO_CACHE'[h] = GEO_CACHE[h]]_vars

ColonCount(l) == Cardinality({j \in 1..Len(l) : l[j] = Colon})

\* no colon, more than one colon, or no number after the colon
Malformed(l) ==
    \/ ColonCount(l) # 1
    \/ l[Len(l)].k # "num"
    \/ l[Len(l) - 1] # Colon

MalformedCount == Cardinality({i \in 1..Len(proxies) : Malformed(proxies[i])})

\* C17: the probe of a literal that is not host:port opens no connection,
\* runs no handshake, asks for no geo code and touches no cache entry, and
\* ends absent; the literal is counted in the total of the summary and not
\* among the found
MalformedAbsent ==
    /\ [](/\ \A i \in 1..Len(tasks) :
              Malformed(tasks[i].proxy) =>
                  /\ tasks[i].pc \in {"queued", "done"}
                  /\ tasks[i].sock = "none"
                  /\ tasks[i].hs = "none"
                  /\ tasks[i].res = None
          /\ report = "summary" =>
                /\ summary.total = Len(proxies)
                /\ summary.found <= summary.total - MalformedCount)
    /\ [][\A i \in 1..Len(tasks) :
             (/\ pc = "pool"
              /\ Malformed(tasks[i].proxy)
              /\ tasks'[i].pc # tasks[i].pc) =>
                 (/\ tasks'[i].pc = "done"
                  /\ GEO_CACHE' = GEO_CACHE
                  /\ queries' = queries)]_vars

MalformedAbsentWitness ==
    /\ report = "summary"
    /\ proxies = <<LitTwoColons, LitQuad>>
    /\ summary = [found |-> 1, total |-> 2]
    /\ tasks[1].runs = 1

CollectedCount == Cardinality({i \in 1..Len(tasks) : tasks[i].collected})

DoneCount == Cardinality({i \in 1..Len(tasks) : tasks[i].pc = "done"})

\* C18: the progress line shows i/N for i = 1, 2, ..., N in this order, one
\* line per future collected; N is the number of calls and does not change;
\* i is never more than the number of calls that have returned; the summary
\* comes only after the line N/N
ProgressCounts ==
    /\ [](/\ progress = CollectedCount
          /\ progress <= DoneCount
          /\ DoneCount <= Len(tasks)
          /\ pc = "pool" => Len(tasks) = Len(proxies)
          /\ report = "summary" =>
                (progress = Len(proxies) /\ summary.total = Len(proxies)))
    /\ [][pc = "pool" =>
             /\ progress' \in {progress, progress + 1}
             /\ proxies' = proxies
             /\ progress' = progress + 1 <=>
                   \E i \in 1..Len(tasks) :
                       /\ tasks[i].pc = "done"
                       /\ ~tasks[i].collected
                       /\ tasks' = [tasks EXCEPT ![i].collected = TRUE]
             /\ report' = "summary" => progress = Len(proxies)]_vars

ProgressCountsWitness ==
    /\ pc = "pool"
    /\ Len(tasks) = 2
    /\ progress = 1
    /\ DoneCount = 1
    /\ tasks[2].collected
    /\ tasks[1].pc = "hs"

\* C19: get_country is entered only by a probe that holds a connection and
\* whose handshake returned true; a step that changes the cache or counts a
\* query is the step of such a probe and ends it with an outcome; a probe
\* that ends absent has asked for no geo code and leaves cache and query
\* counts as they were
GeoAfterHandshake ==
    /\ [](\A i \in 1..Len(tasks) :
              /\ tasks[i].pc \in {"geo", "query"} =>
                    (tasks[i].hs = "true" /\ tasks[i].sock = "open")
              /\ tasks[i].res # None => tasks[i].hs = "true")
    /\ [][/\ (GEO_CACHE' # GEO_CACHE \/ queries' # queries) =>
               \E i \in 1..Len(tasks) :
                   /\ tasks[i].pc = "query"
                   /\ tasks[i].hs = "true"
                   /\ tasks' = [tasks EXCEPT ![i] = tasks'[i]]
                   /\ tasks'[i].pc = "done"
                   /\ tasks'[i].res # None
          /\ \A i \in 1..Len(tasks) :
                 (/\ pc = "pool"
                  /\ tasks[i].pc # "done"
                  /\ tasks'[i].pc = "done"
                  /\ tasks'[i].res = None) =>
                     (/\ tasks[i].pc \in {"queued", "connect", "hs"}
                      /\ GEO_CACHE' = GEO_CACHE
                      /\ queries' = queries)]_vars

GeoAfterHandshakeWitness ==
    /\ pc = "pool"
    /\ Len(tasks) = 2
    /\ tasks[1].pc = "done"
    /\ tasks[1].res = None
    /\ ParseOk(tasks[1].proxy)
    /\ tasks[2].pc = "query"
    /\ GEO_CACHE = <<>>
    /\ queries[HostQuad] = 0

OpenSockets == {i \in 1..Len(tasks) : tasks[i].sock = "open"}

\* C20: a connection is open only while the probe that opened it is running
\* past its connect; a probe that has returned, with an outcome or absent,
\* on whatever path, has closed the connection it opened; never more
\* connections are open than probes are in flight, and none is open once
\* the loop over the futures has ended
NoLeak ==
    /\ \A i \in OpenSockets : tasks[i].pc \in {"hs", "geo", "query"}
    /\ \A i \in 1..Len(tasks) :
          /\ tasks[i].pc = "done" => tasks[i].sock \in {"none", "closed"}
          /\ tasks[i].res # None => tasks[i].sock = "closed"
          /\ tasks[i].pc \in {"queued", "connect"} => tasks[i].sock = "none"
    /\ Cardinality(OpenSockets) <= Cardinality(InFlight)
    /\ (pc # "pool" \/ AllCollected) => OpenSockets = {}

NoLeakWitness ==
    /\ pc = "pool"
    /\ Len(tasks) = 2
    /\ tasks[1].pc = "done"
    /\ tasks[1].res = None
    /\ tasks[1].sock = "closed"
    /\ tasks[2].pc = "query"
    /\ tasks[2].sock = "open"

====
